---- MODULE Spec2Model ----
(***************************************************************************)
(* Model of the natural-language-to-SQL pipeline of sql-chatbot            *)
(* (src/bot_core_logic.py, class SQLChatBot).                              *)
(*                                                                         *)
(* Text is modelled by TLA+ strings, character by character (Len, SubSeq,  *)
(* \o).  A TLA+ string literal cannot hold the backquote character, so the *)
(* backquote of a markdown code fence is written ^ throughout; likewise    *)
(* the check mark and the arrow of the schema prompt are written v and ->, *)
(* and accented letters are written without their accent (TLC does not     *)
(* keep characters outside ASCII intact in the states it stores).          *)
(* Python's None is the empty tuple and a present value v is <<v>>.        *)
(***************************************************************************)
EXTENDS Integers, Sequences, FiniteSets, TLC

VARIABLES
    pc,                  \* position of process_user_question
    user_question,       \* its argument user_question
    user_id,             \* its argument user_id
    sql_query,           \* local sql_query (None until generated)
    df,                  \* rows read by pd.read_sql in _execute_query (None until read)
    results,             \* local results (None until executed)
    formatted_response,  \* local formatted_response (None until formatted)
    envelope,            \* the sequence of dicts returned to the caller
    escaped,             \* TRUE when an exception left process_user_question
    trace,               \* history of the collaborator calls of the request
    audit,               \* records written by _log_interaction
    oplog,               \* messages of logger.error / logger.warning / logger.info
    system_prompt,       \* local system_prompt of _generate_sql_query (None until built)
    sent_prompt,         \* system message handed to the completion service (None until sent)
    schema_prompt,       \* attribute self.schema_prompt
    rpc,                 \* position of refresh_schema
    loaded,              \* value _load_schema returned to refresh_schema (None outside it)
    refresh_returns,     \* values returned by the calls of refresh_schema
    introspections,      \* outcomes of the calls of get_complete_schema
    arg,                 \* input of a pure function under test
    out                  \* None, or <<value returned for arg>>

vars == <<pc, user_question, user_id, sql_query, df, results, formatted_response,
          envelope, escaped, trace, audit, oplog, system_prompt, sent_prompt,
          schema_prompt, rpc, loaded, refresh_returns, introspections, arg, out>>

schema_vars == <<schema_prompt, rpc, loaded, refresh_returns, introspections>>

None == <<>>
Some(v) == <<v>>

-----------------------------------------------------------------------------
(* Python str primitives *)

Char(s, i) == SubSeq(s, i, i)

\* str.strip() / str.split() whitespace (the ASCII part)
IsSpace(c) == c \in {" ", "\n", "\t", "\r"}

ascii_lowercase == "abcdefghijklmnopqrstuvwxyz"
ascii_uppercase == "ABCDEFGHIJKLMNOPQRSTUVWXYZ"

upper_map == [c \in {Char(ascii_lowercase, i) : i \in 1..Len(ascii_lowercase)} |->
                 Char(ascii_uppercase,
                      CHOOSE i \in 1..Len(ascii_lowercase) : Char(ascii_lowercase, i) = c)]

RECURSIVE upper(_)
upper(s) ==
    IF s = "" THEN ""
    ELSE (IF Char(s, 1) \in DOMAIN upper_map THEN upper_map[Char(s, 1)] ELSE Char(s, 1))
         \o upper(Tail(s))

RECURSIVE lstrip(_)
lstrip(s) == IF s # "" /\ IsSpace(Char(s, 1)) THEN lstrip(Tail(s)) ELSE s

RECURSIVE rstrip(_)
rstrip(s) ==
    IF s # "" /\ IsSpace(Char(s, Len(s))) THEN rstrip(SubSeq(s, 1, Len(s) - 1)) ELSE s

strip(s) == rstrip(lstrip(s))

startswith(s, prefix) == Len(s) >= Len(prefix) /\ SubSeq(s, 1, Len(prefix)) = prefix

\* Python's  sub in s
contains(s, sub) == \E i \in 1..(Len(s) - Len(sub) + 1) : SubSeq(s, i, i + Len(sub) - 1) = sub

-----------------------------------------------------------------------------
(* Safety validator *)

allowed_operations == <<"SELECT">>
forbidden_keywords == <<"DROP", "DELETE", "INSERT", "UPDATE", "ALTER", "CREATE", "TRUNCATE">>
dangerous_functions == <<"XP_CMDSHELL", "OPENROWSET", "OPENDATASOURCE", "EXEC", "EXECUTE">>
forbidden_in_question == <<"DROP", "DELETE", "INSERT", "UPDATE", "ALTER", "CREATE">>

\* for kw in words: if kw in text: return False
any_in(words, text) == \E i \in 1..Len(words) : contains(text, words[i])

validate_sql_no_functions(sql) ==
    LET sql_upper == upper(sql) IN
    IF ~startswith(strip(sql_upper), "SELECT") THEN FALSE
    ELSE IF any_in(forbidden_keywords, sql_upper) THEN FALSE
    ELSE TRUE

_validate_sql(sql) ==
    LET sql_upper == upper(sql) IN
    IF ~startswith(strip(sql_upper), "SELECT") THEN FALSE
    ELSE IF any_in(forbidden_keywords, sql_upper) THEN FALSE
    ELSE IF any_in(dangerous_functions, sql_upper) THEN FALSE
    ELSE TRUE

is_valid_question_untrimmed(question) ==
    LET question_upper == upper(question) IN
    IF any_in(forbidden_in_question, question_upper) THEN FALSE
    ELSE IF Len(question) < 5 THEN FALSE
    ELSE TRUE

_is_valid_question(question) ==
    LET question_upper == upper(question) IN
    IF any_in(forbidden_in_question, question_upper) THEN FALSE
    ELSE IF Len(strip(question)) < 5 THEN FALSE
    ELSE TRUE

-----------------------------------------------------------------------------
(* Completion normalisation *)

\* re.sub(marker + r'\n?', '', s): leftmost non-overlapping matches removed
RECURSIVE sub_fence(_, _)
sub_fence(marker, s) ==
    IF s = "" THEN ""
    ELSE IF startswith(s, marker)
         THEN LET rest == SubSeq(s, Len(marker) + 1, Len(s)) IN
              sub_fence(marker, IF startswith(rest, "\n") THEN Tail(rest) ELSE rest)
         ELSE Char(s, 1) \o sub_fence(marker, Tail(s))

\* the text from the first newline of s on ("" when s has none)
RECURSIVE from_newline(_)
from_newline(s) ==
    IF s = "" \/ Char(s, 1) = "\n" THEN s ELSE from_newline(Tail(s))

\* re.sub(r'--.*$', '', s, flags=re.MULTILINE)
RECURSIVE sub_line_comment(_)
sub_line_comment(s) ==
    IF s = "" THEN ""
    ELSE IF startswith(s, "--") THEN sub_line_comment(from_newline(s))
    ELSE Char(s, 1) \o sub_line_comment(Tail(s))

\* s.split(): the maximal runs of non-whitespace, in order
RECURSIVE split(_)
split(s) ==
    LET t == lstrip(s) IN
    IF t = "" THEN <<>>
    ELSE LET n == CHOOSE k \in 1..Len(t) :
                     /\ \A j \in 1..k : ~IsSpace(Char(t, j))
                     /\ (k = Len(t) \/ IsSpace(Char(t, k + 1)))
         IN <<SubSeq(t, 1, n)>> \o split(SubSeq(t, n + 1, Len(t)))

\* sep.join(words)
RECURSIVE join(_, _)
join(sep, words) ==
    IF words = <<>> THEN ""
    ELSE IF Len(words) = 1 THEN words[1]
    ELSE words[1] \o sep \o join(sep, Tail(words))

clean_comments_first(raw) ==
    LET c == sub_line_comment(raw)
        a == sub_fence("^^^sql", c)
        b == sub_fence("^^^", a)
        d == join(" ", split(b))
    IN strip(d)

_clean_sql_response(raw) ==
    LET a == sub_fence("^^^sql", raw)
        b == sub_fence("^^^", a)
        c == sub_line_comment(b)
        d == join(" ", split(c))
    IN strip(d)

-----------------------------------------------------------------------------
(* Query executor and response formatter *)

Min(a, b) == IF a <= b THEN a ELSE b

\* seq[:k] for a list or a str
Take(seq, k) == SubSeq(seq, 1, Min(k, Len(seq)))

digits == "0123456789"

\* str(n) for an int n >= 0
RECURSIVE str_int(_)
str_int(n) ==
    IF n < 10 THEN Char(digits, n + 1)
    ELSE str_int(n \div 10) \o Char(digits, (n % 10) + 1)

\* ch * n
RECURSIVE repeat(_, _)
repeat(ch, n) == IF n <= 0 THEN "" ELSE ch \o repeat(ch, n - 1)

\* A row is a dict in key order: a sequence of <<column, value>> pairs, the
\* value None or <<text>>.
keys(row) == [i \in 1..Len(row) |-> row[i][1]]
get(row, col) == row[CHOOSE i \in 1..Len(row) : row[i][1] = col][2]

truncate_to_99(rows) ==
    IF Len(rows) > 99
    THEN [results |-> SubSeq(rows, 1, 99), warnings |-> <<"Results truncated to 100 rows">>]
    ELSE [results |-> rows, warnings |-> <<>>]

\* _execute_query once pd.read_sql has returned: to_dict('records'), then the cap
truncate_results(rows) ==
    IF Len(rows) > 100
    THEN [results |-> SubSeq(rows, 1, 100), warnings |-> <<"Results truncated to 100 rows">>]
    ELSE [results |-> rows, warnings |-> <<>>]

\* str(row[col]) if row[col] is not None else 'NULL'
cell_text(row, col) == IF get(row, col) = None THEN "NULL" ELSE get(row, col)[1]

\* str(row[col])[:15] if row[col] is not None else 'NULL'
cell_clipped(row, col) == IF get(row, col) = None THEN "NULL" ELSE Take(get(row, col)[1], 15)

digest_record_all_columns(rows, columns, i) ==
    "Registro " \o str_int(i) \o ":\n"
    \o join("", [j \in 1..Len(columns) |->
                    "  " \o columns[j] \o ": " \o cell_text(rows[i], columns[j]) \o "\n"])
    \o "\n"

digest_record(rows, columns, i) ==
    "Registro " \o str_int(i) \o ":\n"
    \o join("", [j \in 1..Min(5, Len(columns)) |->
                    "  " \o columns[j] \o ": " \o cell_text(rows[i], columns[j]) \o "\n"])
    \o "\n"

create_slack_table_off_by_one(rows, question) ==
    IF rows = <<>> THEN "No hay datos para mostrar."
    ELSE
    LET title == "*Resultados para: " \o question \o "*\n\n"
        columns == keys(rows[1])
        n == Len(rows)
        header == join(" | ", [j \in 1..Len(columns) |-> Take(columns[j], 15)])
        row_str(i) == join(" | ", [j \in 1..Len(columns) |-> cell_clipped(rows[i], columns[j])])
        body ==
            IF Len(columns) > 5
            THEN "^^^\nEncontre " \o str_int(n) \o " resultados con "
                 \o str_int(Len(columns)) \o " columnas.\n"
                 \o "Primeras columnas: " \o join(", ", Take(columns, 5)) \o "\n"
                 \o "Muestra de los primeros 3 registros:\n\n"
                 \o join("", [i \in 1..Min(3, n) |-> digest_record(rows, columns, i)])
                 \o "^^^"
            ELSE "^^^\n"
                 \o header \o "\n"
                 \o repeat("-", Len(header)) \o "\n"
                 \o join("", [i \in 1..Min(10, n) |-> row_str(i) \o "\n"])
                 \o (IF n >= 10 THEN "... y " \o str_int(n - 10) \o " registros mas\n" ELSE "")
                 \o "^^^"
    IN title \o body \o "\n*Total de registros: " \o str_int(n) \o "*"

_create_slack_table(rows, question) ==
    IF rows = <<>> THEN "No hay datos para mostrar."
    ELSE
    LET title == "*Resultados para: " \o question \o "*\n\n"
        columns == keys(rows[1])
        n == Len(rows)
        header == join(" | ", [j \in 1..Len(columns) |-> Take(columns[j], 15)])
        row_str(i) == join(" | ", [j \in 1..Len(columns) |-> cell_clipped(rows[i], columns[j])])
        body ==
            IF Len(columns) > 5
            THEN "^^^\nEncontre " \o str_int(n) \o " resultados con "
                 \o str_int(Len(columns)) \o " columnas.\n"
                 \o "Primeras columnas: " \o join(", ", Take(columns, 5)) \o "\n"
                 \o "Muestra de los primeros 3 registros:\n\n"
                 \o join("", [i \in 1..Min(3, n) |-> digest_record(rows, columns, i)])
                 \o "^^^"
            ELSE "^^^\n"
                 \o header \o "\n"
                 \o repeat("-", Len(header)) \o "\n"
                 \o join("", [i \in 1..Min(10, n) |-> row_str(i) \o "\n"])
                 \o (IF n > 10 THEN "... y " \o str_int(n - 10) \o " registros mas\n" ELSE "")
                 \o "^^^"
    IN title \o body \o "\n*Total de registros: " \o str_int(n) \o "*"

format_response_no_guard(rows, original_question, sql) ==
    [text |-> _create_slack_table(rows, original_question),
     sql_query |-> sql,
     row_count |-> Len(rows)]

_format_response(rows, original_question, sql) ==
    IF rows = <<>>
    THEN [text |-> "No encontre resultados para tu consulta.", sql_query |-> sql, row_count |-> 0]
    ELSE [text |-> _create_slack_table(rows, original_question),
          sql_query |-> sql,
          row_count |-> Len(rows)]

\* row[col] raises KeyError when a row that is rendered lacks a column of the
\* first row that is rendered
format_raises(rows) ==
    /\ rows # <<>>
    /\ LET columns == keys(rows[1])
           wide == Len(columns) > 5
           shown_rows == IF wide THEN Take(rows, 3) ELSE Take(rows, 10)
           shown_columns == IF wide THEN Take(columns, 5) ELSE columns
       IN \E i \in 1..Len(shown_rows), j \in 1..Len(shown_columns) :
             \A k \in 1..Len(shown_rows[i]) : shown_rows[i][k][1] # shown_columns[j]

-----------------------------------------------------------------------------
(* Schema context: SchemaDiscoveryService.generate_schema_prompt,          *)
(* SQLChatBot._load_schema and the system prompt of _generate_sql_query    *)

\* prompt += t for each t of texts, in order
RECURSIVE concat(_)
concat(texts) == IF texts = <<>> THEN "" ELSE texts[1] \o concat(Tail(texts))

column_line(col) ==
    LET pk_marker == IF col.is_primary_key THEN "v" ELSE ""
        nullable == IF col.is_nullable THEN "Si" ELSE "No"
        desc == IF col.description = None THEN "" ELSE col.description[1]
    IN "| " \o col.name \o " | " \o col.data_type \o " | " \o nullable \o " | "
       \o pk_marker \o " | " \o desc \o " |\n"

table_block(table) ==
    "\n### " \o table.key \o "\n"
    \o "| Columna | Tipo | Nullable | PK | Descripcion |\n"
    \o "|---------|------|----------|----|--------------|\n"
    \o concat([i \in 1..Len(table.columns) |-> column_line(table.columns[i])])

relationship_line(rel) ==
    "- " \o rel.parent_table \o "." \o rel.parent_column \o " -> "
    \o rel.referenced_table \o "." \o rel.referenced_column \o "\n"

view_line(view) == "- " \o view.schema \o "." \o view.name \o "\n"

generate_schema_prompt(schema) ==
    "# Base de Datos - Esquema Completo\n\n"
    \o "## Tablas y Columnas:\n"
    \o concat([i \in 1..Len(schema.tables) |-> table_block(schema.tables[i])])
    \o "\n## Relaciones (Foreign Keys):\n"
    \o concat([i \in 1..Len(schema.relationships) |->
                  relationship_line(schema.relationships[i])])
    \o "\n## Vistas Disponibles:\n"
    \o concat([i \in 1..Len(schema.views) |-> view_line(schema.views[i])])

\* the outcome of get_complete_schema: a schema, or the exception it raised
Introspected(schema) == [schema |-> Some(schema), error |-> None]
IntrospectionFailed(e) == [schema |-> None, error |-> Some(e)]

\* try: return generate_schema_prompt(get_complete_schema())
\* except Exception: return ""
_load_schema(outcome) ==
    IF outcome.schema = None THEN "" ELSE generate_schema_prompt(outcome.schema[1])

\* the f-string system_prompt, given the value read from self.schema_prompt
build_system_prompt(prompt) ==
    "\n        Eres un experto en SQL Server especializado en generar consultas precisas y seguras.\n\n        CONTEXTO DE LA BASE DE DATOS:\n        "
    \o prompt
    \o "\n\n        REGLAS IMPORTANTES:\n        1. SOLO generar consultas SELECT\n        2. NO usar funciones peligrosas como xp_cmdshell, OPENROWSET, etc.\n        3. Usar JOINs apropiados basandose en las relaciones definidas\n        4. Incluir WHERE clauses cuando sea apropiado para limitar resultados\n        5. Usar aliases descriptivos para las columnas\n        6. Si la pregunta es ambigua, hacer suposiciones razonables\n        7. Optimizar para performance cuando sea posible\n        8. SIEMPRE incluir TOP 100 para limitar resultados grandes\n\n        FORMATO DE RESPUESTA:\n        Responde SOLO con la consulta SQL, sin explicaciones adicionales.\n        "

\* the system message of a call that reads self.schema_prompt when it is made
completion_system_message_reread == build_system_prompt(schema_prompt)

\* messages[0].content of chat.completions.create: the local system_prompt
completion_system_message == system_prompt[1]

-----------------------------------------------------------------------------
(* The collaborators: what the caller, the completion service and the      *)
(* database can hand to one request                                        *)

\* rows the database can return beyond the cap of _execute_query
MaxExtraRows == 2

Questions == {"show all customers", "ventas por ciudad", "hi  ", "Update my order"}

\* user_id is whatever the caller passes; json.dumps accepts str and None
UserIds ==
    {[type |-> "str", value |-> "U123"],
     [type |-> "NoneType", value |-> ""],
     [type |-> "bytes", value |-> "U123"]}

RawCompletions ==
    {"SELECT * FROM Customers -- all",
     "^^^sql\nSELECT TOP 100 id, name\nFROM Customers\n^^^",
     "^^^sql\n-- no query for this\n^^^",
     "",
     "DROP TABLE Customers",
     "SELECT * FROM t; exec xp_cmdshell 'dir'",
     "Lo siento, no puedo responder"}

CompletionErrors == {"Connection error.", "'NoneType' object has no attribute 'strip'"}

DbErrors ==
    {"Login timeout expired", "Query timeout expired", "Invalid object name 'Customers'"}

FormatErrors == {"MemoryError"}

\* calls of refresh_schema in one run
MaxRefreshes == 2

CustomersTable ==
    [key |-> "dbo.Customers",
     columns |-> <<[name |-> "id", data_type |-> "int", is_nullable |-> FALSE,
                    is_primary_key |-> TRUE, description |-> None],
                   [name |-> "city", data_type |-> "nvarchar", is_nullable |-> TRUE,
                    is_primary_key |-> FALSE, description |-> Some("Ciudad del cliente")]>>]

OrdersTable ==
    [key |-> "dbo.Orders",
     columns |-> <<[name |-> "customer_id", data_type |-> "int", is_nullable |-> FALSE,
                    is_primary_key |-> FALSE, description |-> None]>>]

SchemaAtConstruction ==
    [tables |-> <<CustomersTable>>, relationships |-> <<>>, views |-> <<>>]

SchemaAfterMigration ==
    [tables |-> <<CustomersTable, OrdersTable>>,
     relationships |-> <<[parent_table |-> "Orders", parent_column |-> "customer_id",
                          referenced_table |-> "Customers", referenced_column |-> "id"]>>,
     views |-> <<[schema |-> "dbo", name |-> "vw_sales"]>>]

IntrospectionErrors == {"Login timeout expired"}

\* what get_complete_schema can do when __init__ calls _load_schema
ConstructionOutcomes ==
    {Introspected(SchemaAtConstruction)} \cup {IntrospectionFailed(e) : e \in IntrospectionErrors}

\* what get_complete_schema can do when refresh_schema calls _load_schema
RefreshOutcomes ==
    {Introspected(SchemaAtConstruction), Introspected(SchemaAfterMigration)}
    \cup {IntrospectionFailed(e) : e \in IntrospectionErrors}

Timestamps == {"2024-01-01T00:00:00"}

ColumnLists ==
    {<<"id", "customer_full_name", "city">>,
     <<"id", "name", "email", "city", "country", "segment", "created">>}

RowCounts == (0..2) \cup (10..12) \cup ((100 - 1)..(100 + MaxExtraRows))

\* the i-th row of a result set over the columns cols
db_row(i, cols) ==
    [j \in 1..Len(cols) |->
        <<cols[j],
          IF j = 1 THEN Some(str_int(i))
          ELSE IF (i + j) % 4 = 0 THEN None
          ELSE Some(cols[j] \o " of row number " \o str_int(i))>>]

db_rows(n, cols) == [i \in 1..n |-> db_row(i, cols)]

-----------------------------------------------------------------------------
(* Pipeline orchestrator: process_user_question, one action per stage *)

Event(op, text, ok) == [op |-> op, text |-> text, ok |-> ok]

Failure(message) == [success |-> FALSE, error |-> Some(message), data |-> None]
Success(data) == [success |-> TRUE, error |-> None, data |-> Some(data)]

LogLine(level, message) == [level |-> level, message |-> message]

\* json.dumps(log_entry) raises TypeError unless every value is serialisable
json_serializable(uid) == uid.type \in {"str", "NoneType"}

\* the state of an instance on which process_user_question has not been called
PipelineIdle ==
    /\ pc = "idle"
    /\ user_question = ""
    /\ user_id = None
    /\ sql_query = None
    /\ df = None
    /\ results = None
    /\ formatted_response = None
    /\ envelope = <<>>
    /\ escaped = FALSE
    /\ trace = <<>>
    /\ audit = <<>>
    /\ oplog = <<>>
    /\ system_prompt = None
    /\ sent_prompt = None

pipeline_vars == <<pc, user_question, user_id, sql_query, df, results, formatted_response,
                   envelope, escaped, trace, audit, oplog, system_prompt, sent_prompt,
                   schema_vars>>

\* __init__: self.schema_prompt = self._load_schema(), no refresh requested yet
Constructed(outcome) ==
    /\ schema_prompt = _load_schema(outcome)
    /\ introspections = <<outcome>>
    /\ rpc = "idle"
    /\ loaded = None
    /\ refresh_returns = <<>>

Init ==
    /\ PipelineIdle
    /\ \E outcome \in ConstructionOutcomes : Constructed(outcome)
    /\ arg = ""
    /\ out = None

\* the transport calls process_user_question(user_question, user_id)
Receive(question, uid) ==
    /\ pc = "idle"
    /\ pc' = "validate_question"
    /\ user_question' = question
    /\ user_id' = uid
    /\ UNCHANGED <<sql_query, df, results, formatted_response, envelope, escaped, trace,
                   audit, oplog, arg, out,
                   system_prompt, sent_prompt, schema_vars>>

\* return of a dict: the request is over
Return(value) ==
    /\ pc' = "done"
    /\ envelope' = Append(envelope, value)
    /\ escaped' = escaped

\* an exception raised inside the try block propagates to nobody
Uncaught(e) ==
    /\ pc' = "done"
    /\ escaped' = TRUE
    /\ UNCHANGED <<envelope, oplog>>

\* except Exception as e: log it and return the internal-error dict
Caught(e) ==
    /\ Return(Failure("Error interno: " \o e))
    /\ oplog' = Append(oplog, LogLine("error", "Error processing question: " \o e))

ValidateQuestion ==
    /\ pc = "validate_question"
    /\ trace' = Append(trace, Event("validate_question", user_question,
                                    _is_valid_question(user_question)))
    /\ IF ~_is_valid_question(user_question)
       THEN Return(Failure("Pregunta no valida o contiene palabras prohibidas"))
       ELSE pc' = "generate_sql" /\ UNCHANGED <<envelope, escaped>>
    /\ UNCHANGED <<user_question, user_id, sql_query, df, results, formatted_response,
                   audit, oplog, arg, out,
                   system_prompt, sent_prompt, schema_vars>>

\* _generate_sql_query builds system_prompt, reading self.schema_prompt once
BuildPrompt ==
    /\ pc = "generate_sql"
    /\ system_prompt' = Some(build_system_prompt(schema_prompt))
    /\ pc' = "completion"
    /\ UNCHANGED <<user_question, user_id, sql_query, df, results, formatted_response,
                   envelope, escaped, trace, audit, oplog, arg, out, sent_prompt,
                   schema_vars>>

\* _generate_sql_query when the completion service answers with content raw
GenerateReturns(raw) ==
    /\ pc = "completion"
    /\ sent_prompt' = Some(completion_system_message)
    /\ trace' = Append(trace, Event("completion", raw, TRUE))
    /\ sql_query' = Some(_clean_sql_response(strip(raw)))
    /\ pc' = "check_generated"
    /\ UNCHANGED <<user_question, user_id, df, results, formatted_response, envelope,
                   escaped, audit, oplog, arg, out, system_prompt, schema_vars>>

GenerateRaises_Retry(e) ==
    /\ pc = "completion"
    /\ sent_prompt' = Some(completion_system_message)
    /\ trace' = Append(trace, Event("completion", e, FALSE))
    /\ oplog' = Append(oplog, LogLine("error", "Error generating SQL: " \o e))
    /\ sql_query' = None
    /\ pc' = IF \E k \in 1..Len(trace) : trace[k].op = "completion"
             THEN "check_generated" ELSE "generate_sql"
    /\ UNCHANGED <<user_question, user_id, df, results, formatted_response, envelope,
                   escaped, audit, arg, out, system_prompt, schema_vars>>

\* _generate_sql_query when the call, or reading its content, raises
GenerateRaises(e) ==
    /\ pc = "completion"
    /\ sent_prompt' = Some(completion_system_message)
    /\ trace' = Append(trace, Event("completion", e, FALSE))
    /\ oplog' = Append(oplog, LogLine("error", "Error generating SQL: " \o e))
    /\ sql_query' = None
    /\ pc' = "check_generated"
    /\ UNCHANGED <<user_question, user_id, df, results, formatted_response, envelope,
                   escaped, audit, arg, out, system_prompt, schema_vars>>

\* Python's  not sql_query  for an Optional[str]
is_falsy(q) == q = None \/ q = Some("")

CheckGenerated_NoneOnly ==
    /\ pc = "check_generated"
    /\ IF sql_query = None
       THEN Return(Failure("No pude generar una consulta SQL para tu pregunta"))
       ELSE pc' = "validate_sql" /\ UNCHANGED <<envelope, escaped>>
    /\ UNCHANGED <<user_question, user_id, sql_query, df, results, formatted_response,
                   trace, audit, oplog, arg, out,
                   system_prompt, sent_prompt, schema_vars>>

CheckGenerated ==
    /\ pc = "check_generated"
    /\ IF is_falsy(sql_query)
       THEN Return(Failure("No pude generar una consulta SQL para tu pregunta"))
       ELSE pc' = "validate_sql" /\ UNCHANGED <<envelope, escaped>>
    /\ UNCHANGED <<user_question, user_id, sql_query, df, results, formatted_response,
                   trace, audit, oplog, arg, out,
                   system_prompt, sent_prompt, schema_vars>>

ValidateSql_NoGate ==
    /\ pc = "validate_sql"
    /\ trace' = Append(trace, Event("validate_sql", sql_query[1], _validate_sql(sql_query[1])))
    /\ pc' = "execute"
    /\ UNCHANGED <<envelope, escaped>>
    /\ UNCHANGED <<user_question, user_id, sql_query, df, results, formatted_response,
                   audit, oplog, arg, out,
                   system_prompt, sent_prompt, schema_vars>>

ValidateSql ==
    /\ pc = "validate_sql"
    /\ trace' = Append(trace, Event("validate_sql", sql_query[1], _validate_sql(sql_query[1])))
    /\ IF ~_validate_sql(sql_query[1])
       THEN Return(Failure("La consulta generada no es segura"))
       ELSE pc' = "execute" /\ UNCHANGED <<envelope, escaped>>
    /\ UNCHANGED <<user_question, user_id, sql_query, df, results, formatted_response,
                   audit, oplog, arg, out,
                   system_prompt, sent_prompt, schema_vars>>

\* _execute_query when the database returns n rows over the columns cols
ExecuteReturns(n, cols) ==
    /\ pc = "execute"
    /\ trace' = Append(trace, Event("execute", sql_query[1], TRUE))
    /\ df' = Some(db_rows(n, cols))
    /\ LET r == truncate_results(db_rows(n, cols)) IN
       /\ results' = Some(r.results)
       /\ oplog' = oplog \o [i \in 1..Len(r.warnings) |-> LogLine("warning", r.warnings[i])]
    /\ pc' = "format"
    /\ UNCHANGED <<user_question, user_id, sql_query, formatted_response, envelope,
                   escaped, audit, arg, out,
                   system_prompt, sent_prompt, schema_vars>>

ExecuteRaises_Uncaught(e) ==
    /\ pc = "execute"
    /\ trace' = Append(trace, Event("execute", sql_query[1], FALSE))
    /\ Uncaught(e)
    /\ UNCHANGED <<user_question, user_id, sql_query, df, results, formatted_response,
                   audit, arg, out,
                   system_prompt, sent_prompt, schema_vars>>

\* _execute_query when connect or read_sql raises: logged, re-raised, and
\* caught by the except clause of process_user_question
ExecuteRaises(e) ==
    /\ pc = "execute"
    /\ trace' = Append(trace, Event("execute", sql_query[1], FALSE))
    /\ Return(Failure("Error interno: " \o e))
    /\ oplog' = oplog \o <<LogLine("error", "Error executing query: " \o e),
                           LogLine("error", "Error processing question: " \o e)>>
    /\ UNCHANGED <<user_question, user_id, sql_query, df, results, formatted_response,
                   audit, arg, out,
                   system_prompt, sent_prompt, schema_vars>>

Format ==
    /\ pc = "format"
    /\ formatted_response' = Some(_format_response(results[1], user_question, sql_query[1]))
    /\ pc' = "log"
    /\ UNCHANGED <<user_question, user_id, sql_query, df, results, envelope, escaped,
                   trace, audit, oplog, arg, out,
                   system_prompt, sent_prompt, schema_vars>>

\* an exception raised while _format_response runs
FormatRaises(e) ==
    /\ pc = "format"
    /\ Caught(e)
    /\ UNCHANGED <<user_question, user_id, sql_query, df, results, formatted_response,
                   trace, audit, arg, out,
                   system_prompt, sent_prompt, schema_vars>>

log_entry(ts) ==
    [timestamp |-> ts,
     user_id |-> user_id,
     question |-> user_question,
     sql_query |-> sql_query[1],
     result_count |-> IF results[1] # <<>> THEN Len(results[1]) ELSE 0]

\* _log_interaction, then the return of the success dict
LogInteraction(ts) ==
    /\ pc = "log"
    /\ IF json_serializable(user_id)
       THEN /\ audit' = Append(audit, log_entry(ts))
            /\ Return(Success(formatted_response[1]))
            /\ UNCHANGED oplog
       ELSE /\ Caught("Object of type " \o user_id.type \o " is not JSON serializable")
            /\ UNCHANGED audit
    /\ UNCHANGED <<user_question, user_id, sql_query, df, results, formatted_response,
                   trace, arg, out,
                   system_prompt, sent_prompt, schema_vars>>

Next ==
    \/ \E question \in Questions, uid \in UserIds : Receive(question, uid)
    \/ ValidateQuestion
    \/ BuildPrompt
    \/ \E raw \in RawCompletions : GenerateReturns(raw)
    \/ \E e \in CompletionErrors : GenerateRaises(e)
    \/ CheckGenerated
    \/ ValidateSql
    \/ \E n \in RowCounts, cols \in ColumnLists : ExecuteReturns(n, cols)
    \/ \E e \in DbErrors : ExecuteRaises(e)
    \/ Format
    \/ \E e \in FormatErrors : FormatRaises(e)
    \/ \E ts \in Timestamps : LogInteraction(ts)

Spec == Init /\ [][Next]_vars

-----------------------------------------------------------------------------
(* refresh_schema, interleaved with a request *)

\* refresh_schema calls _load_schema, whose introspection has the given outcome;
\* a failure is logged by get_complete_schema and by _load_schema, and swallowed
RefreshLoad(outcome) ==
    /\ rpc = "idle"
    /\ Len(refresh_returns) < MaxRefreshes
    /\ introspections' = Append(introspections, outcome)
    /\ loaded' = Some(_load_schema(outcome))
    /\ oplog' = IF outcome.schema = None
                THEN oplog \o <<LogLine("error", "Error getting schema: " \o outcome.error[1]),
                                LogLine("error", "Error loading schema: " \o outcome.error[1])>>
                ELSE oplog
    /\ rpc' = "assign"
    /\ UNCHANGED <<pc, user_question, user_id, sql_query, df, results, formatted_response,
                   envelope, escaped, trace, audit, system_prompt, sent_prompt,
                   schema_prompt, refresh_returns, arg, out>>

\* self.schema_prompt = <the value loaded>; logger.info(...); return True.
\* The except clause of refresh_schema is never entered: _load_schema raises nothing
RefreshAssign ==
    /\ rpc = "assign"
    /\ schema_prompt' = loaded[1]
    /\ loaded' = None
    /\ oplog' = Append(oplog, LogLine("info", "Schema refreshed successfully"))
    /\ refresh_returns' = Append(refresh_returns, TRUE)
    /\ rpc' = "idle"
    /\ UNCHANGED <<pc, user_question, user_id, sql_query, df, results, formatted_response,
                   envelope, escaped, trace, audit, system_prompt, sent_prompt,
                   introspections, arg, out>>

\* refreshes interleaved with a request up to the end of its synthesis stage,
\* after which the request no longer reads the schema context
NextRefresh ==
    \/ \E question \in Questions, uid \in UserIds : Receive(question, uid)
    \/ ValidateQuestion
    \/ BuildPrompt
    \/ \E raw \in RawCompletions : GenerateReturns(raw)
    \/ \E e \in CompletionErrors : GenerateRaises(e)
    \/ CheckGenerated
    \/ \E outcome \in RefreshOutcomes : RefreshLoad(outcome)
    \/ RefreshAssign

SpecRefresh == Init /\ [][NextRefresh]_vars

-----------------------------------------------------------------------------
(* Claims about the pipeline, checked under Spec *)

Events(op) == {k \in 1..Len(trace) : trace[k].op = op}

NoQueryMessage == "No pude generar una consulta SQL para tu pregunta"

(* C1: the database executor is invoked only with a candidate for which    *)
(* _validate_sql returned true, after the question passed                  *)
(* _is_valid_question and synthesis returned that non-empty candidate; a   *)
(* request rejected at a gate never reaches the database.                  *)
C1_ExecuteOnlyValidated ==
    /\ \A k \in Events("execute") :
          /\ trace[k].text # ""
          /\ _validate_sql(trace[k].text)
          /\ \E q \in Events("validate_question"), c \in Events("completion"),
                v \in Events("validate_sql") :
                /\ q < c /\ c < v /\ v < k
                /\ trace[q] = Event("validate_question", user_question, TRUE)
                /\ trace[c].ok
                /\ _clean_sql_response(strip(trace[c].text)) = trace[k].text
                /\ trace[v] = Event("validate_sql", trace[k].text, TRUE)
    /\ (\E k \in 1..Len(trace) : ~trace[k].ok /\ trace[k].op # "execute")
          => Events("execute") = {}
    /\ (\E c \in Events("completion") : _clean_sql_response(strip(trace[c].text)) = "")
          => Events("execute") = {}

\* a commented completion was cleaned, validated and then executed
C1_Witness ==
    /\ pc = "done"
    /\ \E k \in Events("execute"), c \in Events("completion") :
          /\ trace[k].text = "SELECT * FROM Customers"
          /\ contains(trace[c].text, "--")

(* C2: whatever the completion service, the database, the formatter and    *)
(* the logger do, the request ends by returning exactly one dict: nothing  *)
(* is returned before the end, no exception leaves the orchestrator, and   *)
(* no stage is left without a next step.                                   *)
C2_AlwaysOneEnvelope ==
    /\ ~escaped
    /\ Len(envelope) = (IF pc = "done" THEN 1 ELSE 0)
    /\ \A i \in 1..Len(envelope) : envelope[i].success <=> envelope[i].error = None
    /\ pc # "done" => ENABLED Next

\* the database raised and the caller still got a failure dict
C2_Witness ==
    /\ pc = "done"
    /\ \E k \in Events("execute") : ~trace[k].ok
    /\ Len(envelope) = 1
    /\ ~envelope[1].success

(* C3: every exit path of the orchestrator has emitted exactly one         *)
(* InteractionLogRecord when the request is done.                          *)
C3_EveryExitLogsOnce == pc = "done" => Len(audit) = 1

(* C4: when validation, synthesis, execution and formatting all            *)
(* succeeded, the caller gets the success dict with the rendered result,   *)
(* even when _log_interaction fails.                                       *)
C4_LogFailureHarmless ==
    (pc = "done" /\ formatted_response # None)
        => envelope = <<Success(formatted_response[1])>>

(* C8: when the completion service raises, or its completion is empty      *)
(* after normalisation, the request fails with the could-not-generate      *)
(* error and neither _validate_sql nor the executor is invoked.            *)
C8_NoQueryStopsEarly ==
    \A c \in Events("completion") :
        (~trace[c].ok \/ _clean_sql_response(strip(trace[c].text)) = "") =>
            /\ Events("validate_sql") = {}
            /\ Events("execute") = {}
            /\ pc \in {"check_generated", "done"}
            /\ pc = "done" => envelope = <<Failure(NoQueryMessage)>>

\* a completion of fence markers and a line comment only was refused
C8_Witness ==
    /\ pc = "done"
    /\ envelope = <<Failure(NoQueryMessage)>>
    /\ \E c \in Events("completion") :
          /\ trace[c].ok
          /\ contains(trace[c].text, "^^^sql")
          /\ contains(trace[c].text, "--")

(* C9: for an underlying result of n rows the executor returns exactly     *)
(* min(n, 100) rows, the first ones in their original order, and           *)
(* exceeding the cap is not an error.                                      *)
C9_RowCap ==
    df # None =>
        /\ results # None
        /\ Len(results[1]) = Min(Len(df[1]), 100)
        /\ \A i \in 1..Len(results[1]) : results[1][i] = df[1][i]
        /\ pc = "format" => (envelope = <<>> /\ ~escaped)

\* more than 100 rows were read and 100 were handed on
C9_Witness ==
    /\ pc = "format"
    /\ df # None
    /\ Len(df[1]) > 100
    /\ Len(results[1]) = 100

(* C10: when the underlying result exceeds the cap, what the caller gets   *)
(* differs from what it gets for a result of exactly those 100 rows.       *)
C10_TruncationVisibleToCaller ==
    (pc = "done" /\ df # None /\ Len(df[1]) > 100 /\ Len(envelope) = 1 /\ envelope[1].success)
        => \/ results[1] # truncate_results(SubSeq(df[1], 1, 100)).results
           \/ envelope[1] # Success(_format_response(SubSeq(df[1], 1, 100),
                                                     user_question, sql_query[1]))

(* C14: when the database executor fails, the error message of the          *)
(* envelope is the same for every cause and does not contain the driver's  *)
(* error text, which is logged.                                            *)
C14_GenericExecutionFailure ==
    (pc = "done" /\ \E k \in Events("execute") : ~trace[k].ok) =>
        /\ Len(envelope) = 1
        /\ ~envelope[1].success
        /\ \A e \in DbErrors : ~contains(envelope[1].error[1], e)
        /\ \E e \in DbErrors : \E i \in 1..Len(oplog) : contains(oplog[i].message, e)

\* the order of the positions of process_user_question
stage_rank ==
    [idle |-> 0, validate_question |-> 1, generate_sql |-> 2, completion |-> 3,
     check_generated |-> 4, validate_sql |-> 5, execute |-> 6, format |-> 7, log |-> 8,
     done |-> 9]

(* C18: within one request the completion service is invoked at most once  *)
(* and the database executor at most once, the completion call comes       *)
(* before the executor call, a failed call is the last call of the         *)
(* request, and the request only ever moves to a later stage.              *)
C18_NoRetry ==
    /\ [](/\ Cardinality(Events("completion")) <= 1
          /\ Cardinality(Events("execute")) <= 1
          /\ \A c \in Events("completion"), x \in Events("execute") : c < x
          /\ \A k \in 1..Len(trace) :
                ~trace[k].ok => (k = Len(trace) /\ pc \in {"check_generated", "done"}))
    /\ [][stage_rank[pc'] > stage_rank[pc]]_vars

\* a request whose executor call failed is over after one completion call
C18_Witness ==
    /\ pc = "done"
    /\ Cardinality(Events("completion")) = 1
    /\ \E x \in Events("execute") : ~trace[x].ok

-----------------------------------------------------------------------------
(* Claims about refresh_schema, checked under SpecRefresh *)

(* C15: the system prompt of a request is built whole from the context of  *)
(* one introspection, it does not change once built whatever refresh does, *)
(* and it is the prompt handed to the completion service.                  *)
C15_SingleContext ==
    /\ [](system_prompt # None =>
            \E k \in 1..Len(introspections) :
                system_prompt[1] = build_system_prompt(_load_schema(introspections[k])))
    /\ [](sent_prompt # None => sent_prompt = system_prompt)
    /\ [][system_prompt # None => system_prompt' = system_prompt]_vars

\* a request between building its prompt and calling the completion service,
\* while a refresh has already replaced the context the prompt was built from
C15_Witness ==
    /\ pc = "completion"
    /\ system_prompt # None
    /\ refresh_returns # <<>>
    /\ system_prompt[1] # build_system_prompt(schema_prompt)

(* C16: a call of refresh_schema whose introspection failed returns false.  *)
C16_FailedRefreshReturnsFalse ==
    \A k \in 1..Len(refresh_returns) :
        introspections[k + 1].schema = None => refresh_returns[k] = FALSE

(* C17: outside a refresh the active context is the one built by the most  *)
(* recent successful introspection, and a request that builds its prompt   *)
(* then builds it from that context.                                       *)
C17_LastGoodContextKept ==
    LET good == {k \in 1..Len(introspections) : introspections[k].schema # None}
        last == CHOOSE k \in good : \A j \in good : j <= k
    IN (rpc = "idle" /\ good # {}) =>
          /\ schema_prompt = _load_schema(introspections[last])
          /\ pc = "generate_sql" => schema_prompt # ""

-----------------------------------------------------------------------------
(* Pure functions applied to inputs drawn from bounded sets *)

MaxSqlFragments == 3
MaxQuestionFragments == 3
MaxCleanFragments == 4

\* every concatenation of at most k of the fragments
RECURSIVE Concats(_, _)
Concats(frags, k) ==
    IF k = 0 THEN {""}
    ELSE LET shorter == Concats(frags, k - 1) IN
         shorter \cup {a \o f : a \in shorter, f \in frags}

SqlFragments ==
    {"SELECT", "select", " ", "DROP", "delete", "Insert", "updated_at", "ALTER",
     "create", "Truncate", "xp_cmdshell", "OpenRowSet", "opendatasource", "exec", "ute"}

QuestionFragments ==
    {"hi", " ", "\n", "show", "abcd", "e", "Drop", "delete", "INSERT", "updated",
     "alter", "Create", "truncate"}

CleanFragments == {"^^^", "^", "sql", "\n", " ", "-", "--", "SELECT 1"}

InitValidateSql ==
    /\ PipelineIdle
    /\ Constructed(Introspected(SchemaAtConstruction))
    /\ arg \in Concats(SqlFragments, MaxSqlFragments)
    /\ out = None

CallValidateSql ==
    /\ out = None
    /\ out' = Some(_validate_sql(arg))
    /\ UNCHANGED <<pipeline_vars, arg>>

SpecValidateSql == InitValidateSql /\ [][CallValidateSql]_vars

InitValidQuestion ==
    /\ PipelineIdle
    /\ Constructed(Introspected(SchemaAtConstruction))
    /\ arg \in Concats(QuestionFragments, MaxQuestionFragments)
    /\ out = None

CallIsValidQuestion ==
    /\ out = None
    /\ out' = Some(_is_valid_question(arg))
    /\ UNCHANGED <<pipeline_vars, arg>>

SpecValidQuestion == InitValidQuestion /\ [][CallIsValidQuestion]_vars

InitClean ==
    /\ PipelineIdle
    /\ Constructed(Introspected(SchemaAtConstruction))
    /\ arg \in Concats(CleanFragments, MaxCleanFragments)
    /\ out = None

CallCleanSqlResponse ==
    /\ out = None
    /\ out' = Some(_clean_sql_response(arg))
    /\ UNCHANGED <<pipeline_vars, arg>>

SpecClean == InitClean /\ [][CallCleanSqlResponse]_vars

\* rows handed to the formatter, beside the full result of 100 rows
MaxTableRows == 12

FormatColumns == <<"id", "customer_full_name", "email", "city", "country", "segment", "created">>

FormatQuestions == {"show all customers", "ventas"}

\* rows with the j-th key of row d removed (rows as they are when there is
\* no such row or key)
drop_key(rows, d, j) ==
    IF d = 0 \/ d > Len(rows) THEN rows
    ELSE IF j > Len(rows[d]) THEN rows
    ELSE [rows EXCEPT ![d] = [k \in 1..(Len(rows[d]) - 1) |->
                                 IF k < j THEN rows[d][k] ELSE rows[d][k + 1]]]

FormatInputs ==
    {[rows |-> drop_key(db_rows(n, Take(FormatColumns, c)), dj[1], dj[2]),
      question |-> q,
      sql |-> "SELECT 1"] :
        n \in (0..MaxTableRows) \cup {100},
        c \in 1..Len(FormatColumns),
        dj \in {<<0, 0>>} \cup ({1, 2, 4, 11} \X {1, 5, 7}),
        q \in FormatQuestions}

InitFormat ==
    /\ PipelineIdle
    /\ Constructed(Introspected(SchemaAtConstruction))
    /\ arg \in FormatInputs
    /\ out = None

\* _format_response(results, question, sql): the dict, or the KeyError
CallFormatResponse ==
    /\ out = None
    /\ out' = Some(IF format_raises(arg.rows)
                   THEN [raised |-> TRUE, value |-> None]
                   ELSE [raised |-> FALSE,
                         value |-> Some(_format_response(arg.rows, arg.question, arg.sql))])
    /\ UNCHANGED <<pipeline_vars, arg>>

SpecFormat == InitFormat /\ [][CallFormatResponse]_vars

-----------------------------------------------------------------------------
(* Claims about the pure functions *)

C5_Forbidden ==
    {"DROP", "DELETE", "INSERT", "UPDATE", "ALTER", "CREATE", "TRUNCATE",
     "XP_CMDSHELL", "OPENROWSET", "OPENDATASOURCE", "EXEC", "EXECUTE"}

(* C5: validateSQL returns true exactly when the trimmed, uppercased text  *)
(* starts with SELECT and the uppercased text contains none of the twelve  *)
(* forbidden words as a substring.                                         *)
C5_ValidateSqlExact ==
    out # None =>
        (out[1] <=> /\ startswith(upper(strip(arg)), "SELECT")
                    /\ \A w \in C5_Forbidden : ~contains(upper(arg), w))

\* a lowercase, space-led SELECT is rejected for a dangerous function alone
C5_Witness ==
    /\ out = Some(FALSE)
    /\ startswith(upper(strip(arg)), "SELECT")
    /\ arg # strip(arg)
    /\ contains(arg, "xp_cmdshell")
    /\ ~any_in(forbidden_keywords, upper(arg))

C6_Forbidden == {"DROP", "DELETE", "INSERT", "UPDATE", "ALTER", "CREATE"}

(* C6: validateQuestion returns false if the trimmed length is below 5 or  *)
(* the question contains, in any case, one of DROP, DELETE, INSERT,        *)
(* UPDATE, ALTER, CREATE; and true otherwise.                              *)
C6_ValidQuestionExact ==
    out # None =>
        (out[1] <=> ~(\/ Len(strip(arg)) < 5
                      \/ \E w \in C6_Forbidden : contains(upper(arg), w)))

\* five or more characters, but fewer than five once trimmed
C6_Witness ==
    /\ out = Some(FALSE)
    /\ Len(arg) >= 5
    /\ Len(strip(arg)) \in 1..4
    /\ \A w \in C6_Forbidden : ~contains(upper(arg), w)

\* s is a single-line SELECT with no fence, no comment and single blanks
C7_AlreadyClean(s) ==
    /\ startswith(s, "SELECT")
    /\ ~contains(s, "^^^")
    /\ ~contains(s, "--")
    /\ s = strip(s)
    /\ \A i \in 1..Len(s) : IsSpace(Char(s, i)) => (Char(s, i) = " " /\ Char(s, i + 1) # " ")

\* text.split('\n')
RECURSIVE C_Lines(_)
C_Lines(text) ==
    IF ~contains(text, "\n") THEN <<text>>
    ELSE LET k == CHOOSE i \in 1..Len(text) :
                     Char(text, i) = "\n" /\ \A j \in 1..(i - 1) : Char(text, j) # "\n"
         IN <<SubSeq(text, 1, k - 1)>> \o C_Lines(SubSeq(text, k + 1, Len(text)))

\* every row has the keys of the first row, in the same order
C_Uniform(rows) == \A i \in 1..Len(rows) : keys(rows[i]) = keys(rows[1])

\* the value of a cell as the formatter prints it, clipped to width characters
C_Cell(pair, width) == IF pair[2] = None THEN "NULL" ELSE Take(pair[2][1], width)

\* the value of a cell as the formatter prints it, unclipped
C_CellFull(pair) == IF pair[2] = None THEN "NULL" ELSE pair[2][1]

(* C11: for a non-empty result with at most 5 columns and n rows the       *)
(* formatter renders a table with exactly min(n, 10) data rows, the first  *)
(* ones in order, and a 'more rows' notice appears if and only if n > 10,  *)
(* stating n - 10.                                                         *)
C11_TabularRows ==
    (out # None /\ arg.rows # <<>> /\ C_Uniform(arg.rows) /\ Len(arg.rows[1]) <= 5) =>
        /\ ~out[1].raised
        /\ LET rows == arg.rows
               n == Len(rows)
               shown == Min(n, 10)
               L == C_Lines(out[1].value[1].text)
           IN /\ Len(L) = 7 + shown + (IF n > 10 THEN 1 ELSE 0)
              /\ L[3] = "^^^"
              /\ L[5] = repeat("-", Len(L[4]))
              /\ \A i \in 1..shown :
                    L[5 + i] = join(" | ", [j \in 1..Len(rows[i]) |-> C_Cell(rows[i][j], 15)])
              /\ n > 10 => L[16] = "... y " \o str_int(n - 10) \o " registros mas"
              /\ \A k \in 1..Len(L) : startswith(L[k], "... y ") => (n > 10 /\ k = 16)
              /\ L[Len(L) - 1] = "^^^"

\* twelve rows of three columns: ten are shown and two are announced
C11_Witness ==
    /\ out # None
    /\ C_Uniform(arg.rows)
    /\ Len(arg.rows) = 12
    /\ Len(arg.rows[1]) = 3
    /\ ~out[1].raised
    /\ contains(out[1].value[1].text, "\n... y 2 registros mas\n")

(* C12: for a non-empty result with more than 5 columns and n rows the     *)
(* formatter renders the digest: the counts n and of all columns, exactly  *)
(* the first 5 column names, and exactly min(n, 3) sample rows showing     *)
(* only those 5 columns.                                                   *)
C12_Digest ==
    (out # None /\ arg.rows # <<>> /\ C_Uniform(arg.rows) /\ Len(arg.rows[1]) > 5) =>
        /\ ~out[1].raised
        /\ LET rows == arg.rows
               n == Len(rows)
               columns == keys(rows[1])
               shown == Min(n, 3)
               L == C_Lines(out[1].value[1].text)
           IN /\ Len(L) = 9 + 7 * shown
              /\ L[3] = "^^^"
              /\ L[4] = "Encontre " \o str_int(n) \o " resultados con "
                        \o str_int(Len(columns)) \o " columnas."
              /\ L[5] = "Primeras columnas: " \o columns[1] \o ", " \o columns[2] \o ", "
                        \o columns[3] \o ", " \o columns[4] \o ", " \o columns[5]
              /\ \A i \in 1..shown :
                    LET at == 7 + 7 * (i - 1) IN
                    /\ L[at + 1] = "Registro " \o str_int(i) \o ":"
                    /\ \A j \in 1..5 :
                          L[at + 1 + j] = "  " \o columns[j] \o ": " \o C_CellFull(rows[i][j])
                    /\ L[at + 7] = ""
              /\ L[Len(L) - 1] = "^^^"

\* twelve rows of seven columns: three records of five fields each
C12_Witness ==
    /\ out # None
    /\ C_Uniform(arg.rows)
    /\ Len(arg.rows) = 12
    /\ Len(arg.rows[1]) = 7
    /\ ~out[1].raised
    /\ contains(out[1].value[1].text, "Registro 3:")

(* C13: for a result of 0 to 100 rows whose rows have the keys of the      *)
(* first row, values possibly null, the formatter returns rendered text    *)
(* and never fails; for zero rows it returns exactly the fixed no-results  *)
(* sentence with row count 0, whatever the question.                       *)
C13_FormatterTotal ==
    (out # None /\ C_Uniform(arg.rows) /\ Len(arg.rows) <= 100) =>
        /\ ~out[1].raised
        /\ out[1].value # None
        /\ out[1].value[1].text # ""
        /\ arg.rows = <<>> =>
              out[1].value[1] = [text |-> "No encontre resultados para tu consulta.",
                                 sql_query |-> arg.sql,
                                 row_count |-> 0]

\* a hundred rows with null cells were rendered
C13_Witness ==
    /\ out # None
    /\ Len(arg.rows) = 100
    /\ C_Uniform(arg.rows)
    /\ \E i \in 1..10 : \E j \in 1..Len(arg.rows[i]) : arg.rows[i][j][2] = None
    /\ ~out[1].raised
    /\ contains(out[1].value[1].text, "NULL")

(* C7: clean is idempotent, clean(clean(s)) = clean(s); and a single-line  *)
(* SELECT that is already clean is returned unchanged.                     *)
C7_CleanIdempotent ==
    out # None =>
        /\ _clean_sql_response(out[1]) = out[1]
        /\ (C7_AlreadyClean(arg) => out[1] = arg)

\* a fenced, commented completion was reduced to its statement
C7_Witness ==
    /\ out = Some("SELECT 1")
    /\ contains(arg, "^^^\n")
    /\ contains(arg, "--")

====
